---- MODULE Spec2Model ----
(***************************************************************************)
(* Race scoring engine of the SpeedSkating points-race application         *)
(* (src/app.js, lines 1-1476: the current version of the script).          *)
(*                                                                         *)
(* The engine functions (assignPointsToAthlete, lapAthlete, ...) are       *)
(* modelled as operators on a record `w` that holds one field per          *)
(* variable; an action applies one handler, as a whole, to the current    *)
(* record.  The lifecycle buttons (configuration, start, end, reset) are   *)
(* enabled when the code has made them visible.                            *)
(***************************************************************************)
EXTENDS Integers, Sequences, FiniteSets, Bags, TLC

\* ------------------------------------------------------------------ bounds
\* totalLaps entered on the configuration screen ranges over 0..MaxLaps
MaxLaps == 2
\* athlete numbers typed by the operator range over 1..MaxAthlete
MaxAthlete == 3
\* confirmed undos recorded in the action log before undo is cut off
MaxUndo == 1
\* status changes (lap, unlap, disqualify, reinstate) recorded in the log
MaxStatusOps == 2
\* free point modifications recorded in the log
MaxModify == 1
\* undos, status changes and modifications recorded in the log, together
MaxCorrections == 2

AthleteNumbers == 1..MaxAthlete
LapInputs == 0..MaxLaps
Frequencies == {"every_lap", "every_2_laps"}
PointButtons == {1, 2, 3}
Names == {"", "Ann"}
Surnames == {"", "Lee"}
Deltas == {-1, 2}

\* ------------------------------------------------------------------- state
VARIABLES
    config,             \* state.config: [totalLaps, pointsFrequency]
    raceStarted,        \* state.raceStarted
    raceEnded,          \* state.raceEnded
    lapsRemaining,      \* state.lapsRemaining
    athletes,           \* state.athletes: Map in insertion order, as a sequence
    currentCheckpoint,  \* state.currentCheckpoint: [number, assignedAthletes, availablePoints]
    checkpointHistory,  \* state.checkpointHistory: sequence of [number, athletes, lapsBeforeDecrement]
    actionLog,          \* state.actionLog: the bag of the kinds of the logged messages
    saved,              \* localStorage item 'raceState': a snapshot, or NoSave
    dialogCallback,     \* pending confirmation callback of the dialog
    configScreenHidden, \* configScreen has class 'hidden'
    btnStartRaceHidden, \* btnStartRace has class 'hidden'
    btnEndRaceHidden,   \* btnEndRace has class 'hidden'
    leaderboardContent  \* rows of the leaderboard table, in the order shown

vars == <<config, raceStarted, raceEnded, lapsRemaining, athletes,
          currentCheckpoint, checkpointHistory, actionLog, saved,
          dialogCallback, configScreenHidden, btnStartRaceHidden,
          btnEndRaceHidden, leaderboardContent>>

\* the variables as one record, on which the handlers operate
W ==
    [config |-> config, raceStarted |-> raceStarted, raceEnded |-> raceEnded,
     lapsRemaining |-> lapsRemaining, athletes |-> athletes,
     currentCheckpoint |-> currentCheckpoint,
     checkpointHistory |-> checkpointHistory, actionLog |-> actionLog,
     saved |-> saved, dialogCallback |-> dialogCallback,
     configScreenHidden |-> configScreenHidden,
     btnStartRaceHidden |-> btnStartRaceHidden,
     btnEndRaceHidden |-> btnEndRaceHidden,
     leaderboardContent |-> leaderboardContent]

Apply(w) ==
    /\ config' = w.config
    /\ raceStarted' = w.raceStarted
    /\ raceEnded' = w.raceEnded
    /\ lapsRemaining' = w.lapsRemaining
    /\ athletes' = w.athletes
    /\ currentCheckpoint' = w.currentCheckpoint
    /\ checkpointHistory' = w.checkpointHistory
    /\ actionLog' = w.actionLog
    /\ saved' = w.saved
    /\ dialogCallback' = w.dialogCallback
    /\ configScreenHidden' = w.configScreenHidden
    /\ btnStartRaceHidden' = w.btnStartRaceHidden
    /\ btnEndRaceHidden' = w.btnEndRaceHidden
    /\ leaderboardContent' = w.leaderboardContent

\* the part of the record that is the race state (the `state` object)
RaceState(w) ==
    [config |-> w.config, raceStarted |-> w.raceStarted,
     raceEnded |-> w.raceEnded, lapsRemaining |-> w.lapsRemaining,
     athletes |-> w.athletes, currentCheckpoint |-> w.currentCheckpoint,
     checkpointHistory |-> w.checkpointHistory, actionLog |-> w.actionLog]

NoSave == [none |-> TRUE]
NoCallback == [kind |-> "none", entry |-> 0]
EmptyCheckpoint == [number |-> 0, assignedAthletes |-> <<>>, availablePoints |-> <<>>]

Init ==
    /\ config = [totalLaps |-> 0, pointsFrequency |-> "every_lap"]
    /\ raceStarted = FALSE
    /\ raceEnded = FALSE
    /\ lapsRemaining = 0
    /\ athletes = <<>>
    /\ currentCheckpoint = EmptyCheckpoint
    /\ checkpointHistory = <<>>
    /\ actionLog = EmptyBag
    /\ saved = NoSave
    /\ dialogCallback = NoCallback
    /\ configScreenHidden = FALSE
    /\ btnStartRaceHidden = FALSE
    /\ btnEndRaceHidden = TRUE
    /\ leaderboardContent = <<>>

\* ------------------------------------------------------ athletes (the Map)
Athlete(number, name, surname) ==
    [number |-> number, name |-> name, surname |-> surname,
     points |-> 0, status |-> "normal", savedPoints |-> 0]

\* state.athletes.has(n)
HasAthlete(ath, n) == \E i \in 1..Len(ath) : ath[i].number = n
\* position of the entry of key n
AthleteIndex(ath, n) == CHOOSE i \in 1..Len(ath) : ath[i].number = n
\* state.athletes.get(n), for a key that is present
GetAthlete(ath, n) == ath[AthleteIndex(ath, n)]

\* ------------------------------------------------------------- persistence
SaveToLocalStorage(w) == [w EXCEPT !.saved = RaceState(w)]

LogAction(w, kind) ==
    SaveToLocalStorage([w EXCEPT !.actionLog = @ (+) SetToBag({kind})])

\* loadFromLocalStorage: the state object is overwritten by the saved
\* snapshot, if there is one
LoadFromLocalStorage(w) ==
    IF w.saved = NoSave
    THEN w
    ELSE [w EXCEPT !.config = w.saved.config,
                   !.raceStarted = w.saved.raceStarted,
                   !.raceEnded = w.saved.raceEnded,
                   !.lapsRemaining = w.saved.lapsRemaining,
                   !.athletes = w.saved.athletes,
                   !.currentCheckpoint = w.saved.currentCheckpoint,
                   !.checkpointHistory = w.saved.checkpointHistory,
                   !.actionLog = w.saved.actionLog]

\* ------------------------------------------------------------- leaderboard
\* what getFinalCheckpointPoints returns when no history entry holds a 3
NoFinalCheckpoint == [isNull |-> TRUE, points |-> 0, order |-> 0]

GetFinalCheckpointPoints(w, athleteNumber) ==
    LET had3Points == {k \in 1..Len(w.checkpointHistory) :
                          \E i \in 1..Len(w.checkpointHistory[k].athletes) :
                              w.checkpointHistory[k].athletes[i].points = 3}
    IN  IF had3Points = {}
        THEN NoFinalCheckpoint
        ELSE LET finalCheckpoint ==
                     w.checkpointHistory[CHOOSE k \in had3Points : \A j \in had3Points : j <= k]
                 found == {i \in 1..Len(finalCheckpoint.athletes) :
                              finalCheckpoint.athletes[i].number = athleteNumber}
             IN  IF found # {}
                 THEN LET i == CHOOSE i \in found : \A j \in found : i <= j
                      IN  [isNull |-> FALSE, points |-> finalCheckpoint.athletes[i].points,
                           order |-> i - 1]
                 ELSE [isNull |-> FALSE, points |-> 0, order |-> 999]

\* mutant: the final checkpoint is not consulted, equal points are a tie
CompareAthletesByPoints(w, a, b) ==
    IF a.status = "disqualified" /\ b.status # "disqualified" THEN 1
    ELSE IF a.status # "disqualified" /\ b.status = "disqualified" THEN -1
    ELSE IF a.status = "lapped" /\ b.status # "lapped" THEN 1
    ELSE IF a.status # "lapped" /\ b.status = "lapped" THEN -1
    ELSE b.points - a.points

\* mutant: lapped athletes are not moved behind the others
CompareAthletesLappedAmongNormal(w, a, b) ==
    IF a.status = "disqualified" /\ b.status # "disqualified" THEN 1
    ELSE IF a.status # "disqualified" /\ b.status = "disqualified" THEN -1
    ELSE b.points - a.points

\* the comparison function given to sort by renderLeaderboard: negative when
\* a goes before b, positive when b goes before a
CompareAthletes(w, a, b) ==
    IF a.status = "disqualified" /\ b.status # "disqualified" THEN 1
    ELSE IF a.status # "disqualified" /\ b.status = "disqualified" THEN -1
    ELSE IF a.status = "lapped" /\ b.status # "lapped" THEN 1
    ELSE IF a.status # "lapped" /\ b.status = "lapped" THEN -1
    ELSE IF b.points # a.points THEN b.points - a.points
    ELSE LET aFinal == GetFinalCheckpointPoints(w, a.number)
             bFinal == GetFinalCheckpointPoints(w, b.number)
         IN  IF ~aFinal.isNull /\ ~bFinal.isNull
             THEN IF bFinal.points # aFinal.points
                  THEN bFinal.points - aFinal.points
                  ELSE aFinal.order - bFinal.order
             ELSE 0

\* Array.prototype.sort is stable: x goes behind every element of the sorted
\* prefix that the comparison does not put after it
InsertSorted(w, sorted, x) ==
    LET behind == {i \in 1..Len(sorted) : CompareAthletes(w, sorted[i], x) > 0}
        at == IF behind = {} THEN Len(sorted) + 1
              ELSE CHOOSE i \in behind : \A j \in behind : i <= j
    IN  SubSeq(sorted, 1, at - 1) \o <<x>> \o SubSeq(sorted, at, Len(sorted))

\* Array.from(state.athletes.values()).sort(...), from athlete k on
RECURSIVE SortAthletes(_, _, _)
SortAthletes(w, sorted, k) ==
    IF k > Len(w.athletes)
    THEN sorted
    ELSE SortAthletes(w, InsertSorted(w, sorted, w.athletes[k]), k + 1)

\* mutant: every rendering is recorded in the action log
RenderLeaderboardLogged(w) ==
    [LogAction(w, "rendered") EXCEPT !.leaderboardContent = SortAthletes(w, <<>>, 1)]

\* renderLeaderboard: the rows written into leaderboardContent (none for the
\* empty-leaderboard message)
RenderLeaderboard(w) ==
    [w EXCEPT !.leaderboardContent = SortAthletes(w, <<>>, 1)]

\* ------------------------------------------------------ checkpoint engine
\* mutant: the every_2_laps branch is forgotten
IsNextCheckpointFinalOneLapLeft(w) == w.lapsRemaining = 1

\* mutant: the every_lap branch is forgotten
IsNextCheckpointFinalTwoLapsLeft(w) == w.lapsRemaining = 2

IsNextCheckpointFinal(w) ==
    IF w.config.pointsFrequency = "every_lap"
    THEN w.lapsRemaining = 1
    ELSE w.lapsRemaining = 2

\* mutant: every checkpoint offers the 3
CheckpointPoolWithThree(w) == <<3, 2, 1>>

\* the pool a checkpoint is opened with
CheckpointPool(w) == IF IsNextCheckpointFinal(w) THEN <<3, 2, 1>> ELSE <<2, 1>>

InitializeCheckpoint(w) ==
    [w EXCEPT !.currentCheckpoint =
        [number |-> @.number + 1,
         assignedAthletes |-> <<>>,
         availablePoints |-> CheckpointPool(w)]]

\* Array.prototype.includes
Includes(seq, x) == \E i \in 1..Len(seq) : seq[i] = x
\* Array.prototype.indexOf, 1-based, for an element that is present
IndexOf(seq, x) == CHOOSE i \in 1..Len(seq) : seq[i] = x /\ \A j \in 1..(i - 1) : seq[j] # x
\* mutant: the index is off by one, the next element is removed
SpliceNext(seq, i) == SubSeq(seq, 1, i) \o SubSeq(seq, i + 2, Len(seq))
\* seq.splice(i, 1)
Splice(seq, i) == SubSeq(seq, 1, i - 1) \o SubSeq(seq, i + 1, Len(seq))

CanAssignPoints(w, points) == Includes(w.currentCheckpoint.availablePoints, points)

\* mutant: only the most recent assignment is compared
IsLastAssignedInCheckpoint(w, athleteNumber) ==
    LET assigned == w.currentCheckpoint.assignedAthletes
    IN  Len(assigned) > 0 /\ assigned[Len(assigned)].number = athleteNumber

IsAthleteAlreadyAssignedInCheckpoint(w, athleteNumber) ==
    \E i \in 1..Len(w.currentCheckpoint.assignedAthletes) :
        w.currentCheckpoint.assignedAthletes[i].number = athleteNumber

\* mutant: one lap is counted off whatever the frequency
CompleteCheckpointOneLap(w) ==
    LET w1 == [w EXCEPT !.lapsRemaining = @ - 1]
        w2 == LogAction(w1, "completed")
        w3 == IF w2.lapsRemaining = 0
              THEN [w2 EXCEPT !.btnEndRaceHidden = FALSE]
              ELSE w2
        w4 == SaveToLocalStorage(w3)
    IN  RenderLeaderboard(IF w4.lapsRemaining > 0 THEN InitializeCheckpoint(w4) ELSE w4)

\* mutant: a checkpoint is opened after every completion
CompleteCheckpointAlwaysOpening(w) ==
    LET decrement == IF w.config.pointsFrequency = "every_lap" THEN 1 ELSE 2
        w1 == [w EXCEPT !.lapsRemaining = @ - decrement]
        w2 == LogAction(w1, "completed")
        w3 == IF w2.lapsRemaining = 0
              THEN [w2 EXCEPT !.btnEndRaceHidden = FALSE]
              ELSE w2
        w4 == SaveToLocalStorage(w3)
    IN  RenderLeaderboard(InitializeCheckpoint(w4))

\* mutant: the completion that brings the laps to 0 ends the race itself
CompleteCheckpointEndsRace(w) ==
    LET decrement == IF w.config.pointsFrequency = "every_lap" THEN 1 ELSE 2
        w1 == [w EXCEPT !.lapsRemaining = @ - decrement]
        w2 == LogAction(w1, "completed")
        w3 == IF w2.lapsRemaining = 0
              THEN [w2 EXCEPT !.raceEnded = TRUE]
              ELSE w2
        w4 == SaveToLocalStorage(w3)
    IN  RenderLeaderboard(IF w4.lapsRemaining > 0 THEN InitializeCheckpoint(w4) ELSE w4)

CompleteCheckpoint(w) ==
    LET decrement == IF w.config.pointsFrequency = "every_lap" THEN 1 ELSE 2
        w1 == [w EXCEPT !.lapsRemaining = @ - decrement]
        w2 == LogAction(w1, "completed")
        w3 == IF w2.lapsRemaining = 0
              THEN [w2 EXCEPT !.btnEndRaceHidden = FALSE]
              ELSE w2
        w4 == SaveToLocalStorage(w3)
    IN  RenderLeaderboard(IF w4.lapsRemaining > 0 THEN InitializeCheckpoint(w4) ELSE w4)

\* mutant: completion is decided by the number of athletes assigned
CheckCheckpointCompletionByCount(w) ==
    IF Len(w.currentCheckpoint.assignedAthletes) >= 2
    THEN CompleteCheckpoint(w)
    ELSE w

CheckCheckpointCompletion(w) ==
    IF Len(w.currentCheckpoint.availablePoints) = 0
    THEN CompleteCheckpoint(w)
    ELSE w

\* get-or-create step of assignPointsToAthlete (lines 345-366)
GetOrCreateAthlete(w, athleteNumber, name, surname) ==
    IF ~HasAthlete(w.athletes, athleteNumber)
    THEN LogAction([w EXCEPT !.athletes = Append(@, Athlete(athleteNumber, name, surname))],
                   "added")
    ELSE LET i == AthleteIndex(w.athletes, athleteNumber)
             athlete == w.athletes[i]
         IN  IF (name # "" /\ athlete.name = "") \/ (surname # "" /\ athlete.surname = "")
             THEN LogAction(
                    [w EXCEPT !.athletes[i].name =
                                  IF name # "" /\ athlete.name = "" THEN name ELSE @,
                              !.athletes[i].surname =
                                  IF surname # "" /\ athlete.surname = "" THEN surname ELSE @],
                    "updated")
             ELSE w

\* mutant: the value replaces the points of the athlete
RecordAssignmentOverwriting(w, athleteNumber, points) ==
    LET i == AthleteIndex(w.athletes, athleteNumber)
        isFirstAssignment == Len(w.currentCheckpoint.assignedAthletes) = 0
        w1 == [w EXCEPT !.athletes[i].points = points,
                        !.currentCheckpoint.assignedAthletes =
                            Append(@, [number |-> athleteNumber, points |-> points]),
                        !.currentCheckpoint.availablePoints =
                            Splice(@, IndexOf(@, points))]
        w2 == LogAction(w1, "assigned")
        n == Len(w2.checkpointHistory)
    IN  IF isFirstAssignment
        THEN [ret |-> TRUE, alert |-> "none",
              w |-> RenderLeaderboard(CheckCheckpointCompletion(
                      [w2 EXCEPT !.checkpointHistory =
                          Append(@, [number |-> w2.currentCheckpoint.number,
                                     athletes |-> w2.currentCheckpoint.assignedAthletes,
                                     lapsBeforeDecrement |-> w2.lapsRemaining])]))]
        ELSE IF n = 0
        THEN \* checkpointHistory[-1] is undefined: the handler throws here
             [ret |-> FALSE, alert |-> "TypeError", w |-> w2]
        ELSE [ret |-> TRUE, alert |-> "none",
              w |-> RenderLeaderboard(CheckCheckpointCompletion(
                      [w2 EXCEPT !.checkpointHistory[n].athletes =
                          w2.currentCheckpoint.assignedAthletes]))]

\* mutant: every assignment pushes a history entry of its own
RecordAssignmentAlwaysNewEntry(w, athleteNumber, points) ==
    LET i == AthleteIndex(w.athletes, athleteNumber)
        isFirstAssignment == Len(w.currentCheckpoint.assignedAthletes) = 0
        w1 == [w EXCEPT !.athletes[i].points = @ + points,
                        !.currentCheckpoint.assignedAthletes =
                            Append(@, [number |-> athleteNumber, points |-> points]),
                        !.currentCheckpoint.availablePoints =
                            Splice(@, IndexOf(@, points))]
        w2 == LogAction(w1, "assigned")
        n == Len(w2.checkpointHistory)
    IN  IF isFirstAssignment \/ n > 0
        THEN [ret |-> TRUE, alert |-> "none",
              w |-> RenderLeaderboard(CheckCheckpointCompletion(
                      [w2 EXCEPT !.checkpointHistory =
                          Append(@, [number |-> w2.currentCheckpoint.number,
                                     athletes |-> w2.currentCheckpoint.assignedAthletes,
                                     lapsBeforeDecrement |-> w2.lapsRemaining])]))]
        ELSE IF n = 0
        THEN \* checkpointHistory[-1] is undefined: the handler throws here
             [ret |-> FALSE, alert |-> "TypeError", w |-> w2]
        ELSE [ret |-> TRUE, alert |-> "none",
              w |-> RenderLeaderboard(CheckCheckpointCompletion(
                      [w2 EXCEPT !.checkpointHistory[n].athletes =
                          w2.currentCheckpoint.assignedAthletes]))]

\* the assignment proper (lines 375-412), for an athlete that is registered
RecordAssignment(w, athleteNumber, points) ==
    LET i == AthleteIndex(w.athletes, athleteNumber)
        isFirstAssignment == Len(w.currentCheckpoint.assignedAthletes) = 0
        w1 == [w EXCEPT !.athletes[i].points = @ + points,
                        !.currentCheckpoint.assignedAthletes =
                            Append(@, [number |-> athleteNumber, points |-> points]),
                        !.currentCheckpoint.availablePoints =
                            Splice(@, IndexOf(@, points))]
        w2 == LogAction(w1, "assigned")
        n == Len(w2.checkpointHistory)
    IN  IF isFirstAssignment
        THEN [ret |-> TRUE, alert |-> "none",
              w |-> RenderLeaderboard(CheckCheckpointCompletion(
                      [w2 EXCEPT !.checkpointHistory =
                          Append(@, [number |-> w2.currentCheckpoint.number,
                                     athletes |-> w2.currentCheckpoint.assignedAthletes,
                                     lapsBeforeDecrement |-> w2.lapsRemaining])]))]
        ELSE IF n = 0
        THEN \* checkpointHistory[-1] is undefined: the handler throws here
             [ret |-> FALSE, alert |-> "TypeError", w |-> w2]
        ELSE [ret |-> TRUE, alert |-> "none",
              w |-> RenderLeaderboard(CheckCheckpointCompletion(
                      [w2 EXCEPT !.checkpointHistory[n].athletes =
                          w2.currentCheckpoint.assignedAthletes]))]

\* mutant: the duplicate is looked for before the value
AssignPointsDuplicateFirst(w, athleteNumber, points, name, surname) ==
    IF w.raceEnded
    THEN [ret |-> FALSE, alert |-> "RaceEnded", w |-> w]
    ELSE IF IsAthleteAlreadyAssignedInCheckpoint(w, athleteNumber)
    THEN [ret |-> FALSE, alert |-> "DuplicateAssignment", w |-> w]
    ELSE IF ~CanAssignPoints(w, points)
    THEN [ret |-> FALSE, alert |-> "PointsNotAvailable", w |-> w]
    ELSE LET w1 == GetOrCreateAthlete(w, athleteNumber, name, surname)
         IN  IF GetAthlete(w1.athletes, athleteNumber).status = "disqualified"
             THEN [ret |-> FALSE, alert |-> "AthleteDisqualified", w |-> w1]
             ELSE RecordAssignment(w1, athleteNumber, points)

\* assignPointsToAthlete: the value returned (ret), the alert shown and the
\* record the handler leaves behind
AssignPointsToAthlete(w, athleteNumber, points, name, surname) ==
    IF w.raceEnded
    THEN [ret |-> FALSE, alert |-> "RaceEnded", w |-> w]
    ELSE IF ~CanAssignPoints(w, points)
    THEN [ret |-> FALSE, alert |-> "PointsNotAvailable", w |-> w]
    ELSE IF IsAthleteAlreadyAssignedInCheckpoint(w, athleteNumber)
    THEN [ret |-> FALSE, alert |-> "DuplicateAssignment", w |-> w]
    ELSE LET w1 == GetOrCreateAthlete(w, athleteNumber, name, surname)
         IN  IF GetAthlete(w1.athletes, athleteNumber).status = "disqualified"
             THEN [ret |-> FALSE, alert |-> "AthleteDisqualified", w |-> w1]
             ELSE RecordAssignment(w1, athleteNumber, points)

\* ---------------------------------------------------- status and points
\* mutant: the sum is stored without the floor of 0
ModifyAthletePointsUnclamped(w, athleteNumber, pointsChange) ==
    IF ~HasAthlete(w.athletes, athleteNumber)
    THEN w
    ELSE LET i == AthleteIndex(w.athletes, athleteNumber)
         IN  RenderLeaderboard(SaveToLocalStorage(
               LogAction([w EXCEPT !.athletes[i].points = @ + pointsChange], "modify")))

ModifyAthletePointsFree(w, athleteNumber, pointsChange) ==
    IF ~HasAthlete(w.athletes, athleteNumber)
    THEN w
    ELSE LET i == AthleteIndex(w.athletes, athleteNumber)
             sum == w.athletes[i].points + pointsChange
             newPoints == IF sum > 0 THEN sum ELSE 0
         IN  RenderLeaderboard(SaveToLocalStorage(
               LogAction([w EXCEPT !.athletes[i].points = newPoints], "modify")))

\* mutant: a lapped athlete is also taken out of the open checkpoint
LapAthleteLeavingCheckpoint(w, athleteNumber) ==
    IF ~HasAthlete(w.athletes, athleteNumber)
    THEN w
    ELSE LET i == AthleteIndex(w.athletes, athleteNumber)
         IN  RenderLeaderboard(SaveToLocalStorage(
               LogAction([w EXCEPT !.athletes[i].savedPoints = w.athletes[i].points,
                                   !.athletes[i].points = 0,
                                   !.athletes[i].status = "lapped",
                                   !.currentCheckpoint.assignedAthletes =
                                       SelectSeq(@, LAMBDA a : a.number # athleteNumber)],
                         "lapped")))

\* mutant: the points are zeroed without being saved first
LapAthleteWithoutSaving(w, athleteNumber) ==
    IF ~HasAthlete(w.athletes, athleteNumber)
    THEN w
    ELSE LET i == AthleteIndex(w.athletes, athleteNumber)
         IN  RenderLeaderboard(SaveToLocalStorage(
               LogAction([w EXCEPT !.athletes[i].points = 0,
                                   !.athletes[i].status = "lapped"],
                         "lapped")))

LapAthlete(w, athleteNumber) ==
    IF ~HasAthlete(w.athletes, athleteNumber)
    THEN w
    ELSE LET i == AthleteIndex(w.athletes, athleteNumber)
         IN  RenderLeaderboard(SaveToLocalStorage(
               LogAction([w EXCEPT !.athletes[i].savedPoints = w.athletes[i].points,
                                   !.athletes[i].points = 0,
                                   !.athletes[i].status = "lapped"],
                         "lapped")))

\* mutant: the status of the athlete is not looked at
UnlapAthleteAnyStatus(w, athleteNumber) ==
    IF ~HasAthlete(w.athletes, athleteNumber)
    THEN w
    ELSE LET i == AthleteIndex(w.athletes, athleteNumber)
         IN  RenderLeaderboard(SaveToLocalStorage(
               LogAction([w EXCEPT !.athletes[i].points = w.athletes[i].savedPoints,
                                   !.athletes[i].savedPoints = 0,
                                   !.athletes[i].status = "normal"],
                         "unlapped")))

UnlapAthlete(w, athleteNumber) ==
    IF ~HasAthlete(w.athletes, athleteNumber)
    THEN w
    ELSE LET i == AthleteIndex(w.athletes, athleteNumber)
         IN  IF w.athletes[i].status # "lapped"
             THEN w
             ELSE RenderLeaderboard(SaveToLocalStorage(
                    LogAction([w EXCEPT !.athletes[i].points = w.athletes[i].savedPoints,
                                        !.athletes[i].savedPoints = 0,
                                        !.athletes[i].status = "normal"],
                              "unlapped")))

\* mutant: a lapped athlete loses the points saved when it was lapped
DisqualifyAthleteDroppingSaved(w, athleteNumber) ==
    IF ~HasAthlete(w.athletes, athleteNumber)
    THEN w
    ELSE LET i == AthleteIndex(w.athletes, athleteNumber)
         IN  RenderLeaderboard(SaveToLocalStorage(
               LogAction([w EXCEPT !.athletes[i].savedPoints =
                                       IF w.athletes[i].status = "lapped"
                                       THEN 0
                                       ELSE w.athletes[i].points,
                                   !.athletes[i].points = 0,
                                   !.athletes[i].status = "disqualified"],
                         "disqualified")))

\* mutant: the current points are saved whatever the status is
DisqualifyAthleteSavingCurrent(w, athleteNumber) ==
    IF ~HasAthlete(w.athletes, athleteNumber)
    THEN w
    ELSE LET i == AthleteIndex(w.athletes, athleteNumber)
         IN  RenderLeaderboard(SaveToLocalStorage(
               LogAction([w EXCEPT !.athletes[i].savedPoints = w.athletes[i].points,
                                   !.athletes[i].points = 0,
                                   !.athletes[i].status = "disqualified"],
                         "disqualified")))

DisqualifyAthlete(w, athleteNumber) ==
    IF ~HasAthlete(w.athletes, athleteNumber)
    THEN w
    ELSE LET i == AthleteIndex(w.athletes, athleteNumber)
         IN  RenderLeaderboard(SaveToLocalStorage(
               LogAction([w EXCEPT !.athletes[i].savedPoints =
                                       IF w.athletes[i].status = "lapped"
                                       THEN w.athletes[i].savedPoints
                                       ELSE w.athletes[i].points,
                                   !.athletes[i].points = 0,
                                   !.athletes[i].status = "disqualified"],
                         "disqualified")))

\* mutant: the saved points are given back and kept
ReinstateAthleteKeepingSaved(w, athleteNumber) ==
    IF ~HasAthlete(w.athletes, athleteNumber)
    THEN w
    ELSE LET i == AthleteIndex(w.athletes, athleteNumber)
         IN  IF w.athletes[i].status # "disqualified"
             THEN w
             ELSE RenderLeaderboard(SaveToLocalStorage(
                    LogAction([w EXCEPT !.athletes[i].points = w.athletes[i].savedPoints,
                                        !.athletes[i].status = "normal"],
                              "reinstated")))

ReinstateAthlete(w, athleteNumber) ==
    IF ~HasAthlete(w.athletes, athleteNumber)
    THEN w
    ELSE LET i == AthleteIndex(w.athletes, athleteNumber)
         IN  IF w.athletes[i].status # "disqualified"
             THEN w
             ELSE RenderLeaderboard(SaveToLocalStorage(
                    LogAction([w EXCEPT !.athletes[i].points = w.athletes[i].savedPoints,
                                        !.athletes[i].savedPoints = 0,
                                        !.athletes[i].status = "normal"],
                              "reinstated")))

\* ------------------------------------------------------------------ dialog
ShowDialog(w, onConfirm) == [w EXCEPT !.dialogCallback = onConfirm]

CloseDialog(w) == [w EXCEPT !.dialogCallback = NoCallback]

\* -------------------------------------------------------------------- undo
\* mutant: the ended race is not looked at
CanUndoWithHistory(w) == Len(w.checkpointHistory) > 0

CanUndo(w) == Len(w.checkpointHistory) > 0 /\ ~w.raceEnded

\* click on btnUndo: captures the last history entry and asks for confirmation
UndoLastCheckpoint(w) ==
    IF ~CanUndo(w)
    THEN w
    ELSE ShowDialog(w, [kind |-> "undo", entry |-> Len(w.checkpointHistory)])

\* mutant: only the first assignment of the entry is taken back
RemovePointsFirstOnly(w, assignments, k) ==
    IF Len(assignments) = 0 \/ ~HasAthlete(w.athletes, assignments[1].number)
    THEN w
    ELSE LogAction([w EXCEPT !.athletes[AthleteIndex(w.athletes, assignments[1].number)].points =
                                 @ - assignments[1].points],
                   "removed")

\* mutant: an athlete left without points is deleted from the Map
RECURSIVE RemovePointsDeleting(_, _, _)
RemovePointsDeleting(w, assignments, k) ==
    IF k > Len(assignments)
    THEN w
    ELSE LET assignment == assignments[k]
         IN  IF HasAthlete(w.athletes, assignment.number)
             THEN LET i == AthleteIndex(w.athletes, assignment.number)
                      w1 == LogAction([w EXCEPT !.athletes[i].points = @ - assignment.points],
                                      "removed")
                  IN  RemovePointsDeleting(
                        IF w1.athletes[i].points = 0
                        THEN [w1 EXCEPT !.athletes = Splice(@, i)]
                        ELSE w1,
                        assignments, k + 1)
             ELSE RemovePointsDeleting(w, assignments, k + 1)

\* mutant: taking points back also makes the athlete Normal
RECURSIVE RemovePointsResettingStatus(_, _, _)
RemovePointsResettingStatus(w, assignments, k) ==
    IF k > Len(assignments)
    THEN w
    ELSE LET assignment == assignments[k]
         IN  IF HasAthlete(w.athletes, assignment.number)
             THEN LET i == AthleteIndex(w.athletes, assignment.number)
                  IN  RemovePointsResettingStatus(
                        LogAction([w EXCEPT !.athletes[i].points = @ - assignment.points,
                                            !.athletes[i].status = "normal"],
                                  "removed"),
                        assignments, k + 1)
             ELSE RemovePointsResettingStatus(w, assignments, k + 1)

\* lastCheckpoint.athletes.forEach(...) of the confirmation callback, from
\* assignment k on
RECURSIVE RemovePoints(_, _, _)
RemovePoints(w, assignments, k) ==
    IF k > Len(assignments)
    THEN w
    ELSE LET assignment == assignments[k]
         IN  IF HasAthlete(w.athletes, assignment.number)
             THEN RemovePoints(
                    LogAction([w EXCEPT !.athletes[AthleteIndex(w.athletes, assignment.number)].points =
                                            @ - assignment.points],
                              "removed"),
                    assignments, k + 1)
             ELSE RemovePoints(w, assignments, k + 1)

\* mutant: the number of the open checkpoint is not set back
UndoCallbackKeepingNumber(w, entry) ==
    LET lastCheckpoint == w.checkpointHistory[entry]
        w1 == RemovePoints(w, lastCheckpoint.athletes, 1)
        w2 == [w1 EXCEPT !.lapsRemaining = lastCheckpoint.lapsBeforeDecrement,
                         !.checkpointHistory = SubSeq(@, 1, Len(@) - 1)]
        w3 == [w2 EXCEPT !.currentCheckpoint =
                  [number |-> w2.currentCheckpoint.number,
                   assignedAthletes |-> <<>>,
                   availablePoints |-> CheckpointPool(w2)]]
        w4 == IF w3.lapsRemaining > 0
              THEN [w3 EXCEPT !.btnEndRaceHidden = TRUE]
              ELSE w3
    IN  RenderLeaderboard(SaveToLocalStorage(LogAction(w4, "undo")))

\* mutant: the whole history is dropped
UndoCallbackClearingHistory(w, entry) ==
    LET lastCheckpoint == w.checkpointHistory[entry]
        w1 == RemovePoints(w, lastCheckpoint.athletes, 1)
        w2 == [w1 EXCEPT !.lapsRemaining = lastCheckpoint.lapsBeforeDecrement,
                         !.checkpointHistory = <<>>]
        w3 == [w2 EXCEPT !.currentCheckpoint =
                  [number |-> lastCheckpoint.number,
                   assignedAthletes |-> <<>>,
                   availablePoints |-> CheckpointPool(w2)]]
        w4 == IF w3.lapsRemaining > 0
              THEN [w3 EXCEPT !.btnEndRaceHidden = TRUE]
              ELSE w3
    IN  RenderLeaderboard(SaveToLocalStorage(LogAction(w4, "undo")))

\* mutant: the pool is computed before the laps are restored
UndoCallbackPoolBeforeRestore(w, entry) ==
    LET lastCheckpoint == w.checkpointHistory[entry]
        w1 == RemovePoints(w, lastCheckpoint.athletes, 1)
        w2 == [w1 EXCEPT !.lapsRemaining = lastCheckpoint.lapsBeforeDecrement,
                         !.checkpointHistory = SubSeq(@, 1, Len(@) - 1)]
        w3 == [w2 EXCEPT !.currentCheckpoint =
                  [number |-> lastCheckpoint.number,
                   assignedAthletes |-> <<>>,
                   availablePoints |-> CheckpointPool(w1)]]
        w4 == IF w3.lapsRemaining > 0
              THEN [w3 EXCEPT !.btnEndRaceHidden = TRUE]
              ELSE w3
    IN  RenderLeaderboard(SaveToLocalStorage(LogAction(w4, "undo")))

\* the confirmation callback of undoLastCheckpoint; entry is the position
\* in checkpointHistory of the entry the click captured
UndoCallback(w, entry) ==
    LET lastCheckpoint == w.checkpointHistory[entry]
        w1 == RemovePoints(w, lastCheckpoint.athletes, 1)
        w2 == [w1 EXCEPT !.lapsRemaining = lastCheckpoint.lapsBeforeDecrement,
                         !.checkpointHistory = SubSeq(@, 1, Len(@) - 1)]
        w3 == [w2 EXCEPT !.currentCheckpoint =
                  [number |-> lastCheckpoint.number,
                   assignedAthletes |-> <<>>,
                   availablePoints |-> CheckpointPool(w2)]]
        w4 == IF w3.lapsRemaining > 0
              THEN [w3 EXCEPT !.btnEndRaceHidden = TRUE]
              ELSE w3
    IN  RenderLeaderboard(SaveToLocalStorage(LogAction(w4, "undo")))

\* --------------------------------------------------------------- lifecycle
\* mutant: the first checkpoint is opened when the race is configured
StartConfigOpeningCheckpoint(w, laps, frequency) ==
    IF laps < 1
    THEN w
    ELSE LET w1 == [w EXCEPT !.config = [totalLaps |-> laps, pointsFrequency |-> frequency],
                             !.lapsRemaining = laps]
         IN  RenderLeaderboard(InitializeCheckpoint(
               [LogAction(w1, "config") EXCEPT !.configScreenHidden = TRUE]))

\* click on btnStartConfig
StartConfig(w, laps, frequency) ==
    IF laps < 1
    THEN w
    ELSE LET w1 == [w EXCEPT !.config = [totalLaps |-> laps, pointsFrequency |-> frequency],
                             !.lapsRemaining = laps]
         IN  RenderLeaderboard([LogAction(w1, "config") EXCEPT !.configScreenHidden = TRUE])

StartRace(w) ==
    LET w1 == [w EXCEPT !.raceStarted = TRUE, !.btnStartRaceHidden = TRUE]
    IN  RenderLeaderboard(InitializeCheckpoint(SaveToLocalStorage(LogAction(w1, "start"))))

\* mutant: the race is ended at the click, without a confirmation
EndRaceWithoutDialog(w) ==
    LET w1 == [w EXCEPT !.raceEnded = TRUE, !.btnEndRaceHidden = TRUE]
    IN  RenderLeaderboard(SaveToLocalStorage(LogAction(w1, "ended")))

EndRace(w) == ShowDialog(w, [kind |-> "end", entry |-> 0])

EndRaceCallback(w) ==
    LET w1 == [w EXCEPT !.raceEnded = TRUE, !.btnEndRaceHidden = TRUE]
    IN  RenderLeaderboard(SaveToLocalStorage(LogAction(w1, "ended")))

ResetRace(w) == ShowDialog(w, [kind |-> "reset", entry |-> 0])

ResetRaceCallback(w) ==
    [w EXCEPT !.saved = NoSave,
              !.config = [totalLaps |-> 0, pointsFrequency |-> "every_lap"],
              !.raceStarted = FALSE,
              !.raceEnded = FALSE,
              !.lapsRemaining = 0,
              !.athletes = <<>>,
              !.currentCheckpoint = EmptyCheckpoint,
              !.checkpointHistory = <<>>,
              !.actionLog = EmptyBag,
              !.configScreenHidden = FALSE,
              !.btnStartRaceHidden = FALSE,
              !.btnEndRaceHidden = TRUE]

\* click on dialogConfirm
DialogConfirm(w) ==
    CloseDialog(
        CASE w.dialogCallback.kind = "undo" -> UndoCallback(w, w.dialogCallback.entry)
          [] w.dialogCallback.kind = "end" -> EndRaceCallback(w)
          [] w.dialogCallback.kind = "reset" -> ResetRaceCallback(w)
          [] OTHER -> w)

\* ----------------------------------------------------------------- actions
\* The budgets below read the action log: each kind of correction the
\* operator can repeat without end is cut off after a number of logged uses.
StatusOpsLogged ==
    CopiesIn("lapped", actionLog) + CopiesIn("unlapped", actionLog)
        + CopiesIn("disqualified", actionLog) + CopiesIn("reinstated", actionLog)

CorrectionsLogged ==
    StatusOpsLogged + CopiesIn("modify", actionLog) + CopiesIn("undo", actionLog)

\* Athlete numbers are interchangeable keys: the operator registers them in
\* increasing order, so a call names a registered athlete or the next number.
KnownNumbers ==
    1..(IF Len(athletes) < MaxAthlete THEN Len(athletes) + 1 ELSE MaxAthlete)

\* the dialog overlay is hidden
DialogClosed == dialogCallback.kind = "none"

ClickStartConfig ==
    /\ ~configScreenHidden
    /\ \E laps \in LapInputs, frequency \in Frequencies :
           Apply(StartConfig(W, laps, frequency))

ClickStartRace ==
    /\ configScreenHidden
    /\ ~btnStartRaceHidden
    /\ Apply(StartRace(W))

ClickEndRace ==
    /\ configScreenHidden
    /\ ~btnEndRaceHidden
    /\ Apply(EndRace(W))

ClickResetRace ==
    /\ configScreenHidden
    /\ Apply(ResetRace(W))

ClickUndo ==
    /\ configScreenHidden
    /\ Apply(UndoLastCheckpoint(W))

ClickDialogConfirm ==
    /\ ~DialogClosed
    /\ dialogCallback.kind = "undo" =>
           /\ CopiesIn("undo", actionLog) < MaxUndo
           /\ CorrectionsLogged < MaxCorrections
    /\ Apply(DialogConfirm(W))

ClickDialogCancel ==
    /\ ~DialogClosed
    /\ Apply(CloseDialog(W))

\* assignment with the name fields left empty (keyboard overlay or athlete menu)
AssignPoints ==
    \E athleteNumber \in KnownNumbers, points \in PointButtons :
        Apply(AssignPointsToAthlete(W, athleteNumber, points, "", "").w)

ModifyPoints ==
    /\ CopiesIn("modify", actionLog) < MaxModify
    /\ CorrectionsLogged < MaxCorrections
    /\ \E athleteNumber \in AthleteNumbers, pointsChange \in Deltas :
           Apply(ModifyAthletePointsFree(W, athleteNumber, pointsChange))

StatusBudget ==
    /\ StatusOpsLogged < MaxStatusOps
    /\ CorrectionsLogged < MaxCorrections

Lap ==
    /\ StatusBudget
    /\ \E athleteNumber \in AthleteNumbers : Apply(LapAthlete(W, athleteNumber))

Unlap ==
    /\ StatusBudget
    /\ \E athleteNumber \in AthleteNumbers : Apply(UnlapAthlete(W, athleteNumber))

Disqualify ==
    /\ StatusBudget
    /\ \E athleteNumber \in AthleteNumbers : Apply(DisqualifyAthlete(W, athleteNumber))

Reinstate ==
    /\ StatusBudget
    /\ \E athleteNumber \in AthleteNumbers : Apply(ReinstateAthlete(W, athleteNumber))

\* One session of the page: every command of the race screen, the name
\* fields left empty; a dialog, once shown, is answered before anything else
\* (its overlay covers the page).
Next ==
    \/ DialogClosed /\ ClickStartConfig
    \/ DialogClosed /\ ClickStartRace
    \/ DialogClosed /\ ClickEndRace
    \/ DialogClosed /\ ClickResetRace
    \/ DialogClosed /\ ClickUndo
    \/ DialogClosed /\ AssignPoints
    \/ DialogClosed /\ ModifyPoints
    \/ DialogClosed /\ Lap
    \/ DialogClosed /\ Unlap
    \/ DialogClosed /\ Disqualify
    \/ DialogClosed /\ Reinstate
    \/ ClickDialogConfirm
    \/ ClickDialogCancel

Spec == Init /\ [][Next]_vars

\* ------------------------------------------------------------ a long race
\* totalLaps entered for a long race ranges over 0..MaxLongLaps
MaxLongLaps == 4

LongLapInputs == 0..MaxLongLaps

ClickStartConfigLong ==
    /\ ~configScreenHidden
    /\ \E laps \in LongLapInputs, frequency \in Frequencies :
           Apply(StartConfig(W, laps, frequency))

\* A race of up to MaxLongLaps laps that is scored and corrected by undo
\* only: configuration, start, assignments, undo and its dialog.
LongNext ==
    \/ DialogClosed /\ ClickStartConfigLong
    \/ DialogClosed /\ ClickStartRace
    \/ DialogClosed /\ ClickUndo
    \/ DialogClosed /\ AssignPoints
    \/ ClickDialogConfirm
    \/ ClickDialogCancel

LongSpec == Init /\ [][LongNext]_vars

\* ------------------------------------------- commands under an open dialog
\* No handler looks at the dialog: a command that arrives while a
\* confirmation is pending (a button reached with the keyboard, a second
\* request) runs as usual, and showDialog replaces the pending callback.
\* The commands here are those that write the race, the checkpoints or the
\* dialog.
OpenNext ==
    \/ ClickStartConfig
    \/ ClickStartRace
    \/ ClickEndRace
    \/ ClickUndo
    \/ AssignPoints
    \/ ClickDialogConfirm
    \/ ClickDialogCancel

OpenSpec == Init /\ [][OpenNext]_vars

\* ====================================================== claims C1 - C10
Range(seq) == {seq[i] : i \in 1..Len(seq)}
AssignedPoints == {currentCheckpoint.assignedAthletes[i].points :
                      i \in 1..Len(currentCheckpoint.assignedAthletes)}
EveryInput == AthleteNumbers \X PointButtons \X Names \X Surnames

\* lapsRemaining when the current checkpoint was opened: it changes only at
\* completion, and the first assignment recorded it in the history entry
LapsAtOpening ==
    IF Len(currentCheckpoint.assignedAthletes) > 0 /\ Len(checkpointHistory) > 0
    THEN checkpointHistory[Len(checkpointHistory)].lapsBeforeDecrement
    ELSE lapsRemaining

PoolOpenedWith ==
    IF \/ config.pointsFrequency = "every_lap" /\ LapsAtOpening = 1
       \/ config.pointsFrequency = "every_2_laps" /\ LapsAtOpening = 2
    THEN {3, 2, 1}
    ELSE {2, 1}

\* C1: in a started race the values still available and the values handed
\* out in the current checkpoint are disjoint, and together they are exactly
\* the pool the checkpoint was opened with, {3,2,1} or {2,1}.
C1_PoolConservation ==
    raceStarted =>
        /\ Range(currentCheckpoint.availablePoints) \cap AssignedPoints = {}
        /\ Range(currentCheckpoint.availablePoints) \cup AssignedPoints = PoolOpenedWith
        /\ Cardinality(Range(currentCheckpoint.availablePoints))
               = Len(currentCheckpoint.availablePoints)
        /\ Cardinality(AssignedPoints) = Len(currentCheckpoint.assignedAthletes)

\* a checkpoint reopened by an undo, partly filled again, after a status change
C1_Witness ==
    /\ raceStarted
    /\ CopiesIn("undo", actionLog) = 1
    /\ StatusOpsLogged = 1
    /\ Len(currentCheckpoint.assignedAthletes) = 2
    /\ currentCheckpoint.availablePoints = <<2>>

\* C2: every athlete has points >= 0 and savedPoints >= 0 in every reachable
\* state.
C2_NonNegativePoints ==
    \A i \in 1..Len(athletes) : athletes[i].points >= 0 /\ athletes[i].savedPoints >= 0

\* C3: lapsRemaining >= 0 in every reachable state.
C3_LapsRemainingNonNegative == lapsRemaining >= 0

\* the call left athletes, the open checkpoint, the history and the lap
\* countdown as they are
LeavesRaceUntouched(r) ==
    /\ r.athletes = athletes
    /\ r.currentCheckpoint = currentCheckpoint
    /\ r.checkpointHistory = checkpointHistory
    /\ r.lapsRemaining = lapsRemaining

\* C4: once raceEnded is true, assignPoints, lap, unlap, disqualify,
\* reinstate, modifyPoints and undoLastCheckpoint are all rejected and leave
\* athletes, currentCheckpoint, checkpointHistory and lapsRemaining unchanged.
C4_EndedRaceRejectsEveryOperation ==
    raceEnded =>
        /\ \A in \in EveryInput :
               LeavesRaceUntouched(AssignPointsToAthlete(W, in[1], in[2], in[3], in[4]).w)
        /\ LeavesRaceUntouched(UndoLastCheckpoint(W))
        /\ UndoLastCheckpoint(W).dialogCallback = dialogCallback
        /\ \A a \in AthleteNumbers :
               /\ LeavesRaceUntouched(LapAthlete(W, a))
               /\ LeavesRaceUntouched(UnlapAthlete(W, a))
               /\ LeavesRaceUntouched(DisqualifyAthlete(W, a))
               /\ LeavesRaceUntouched(ReinstateAthlete(W, a))
               /\ \A d \in Deltas : LeavesRaceUntouched(ModifyAthletePointsFree(W, a, d))

\* C5: an assignPoints call that is rejected (it returns false) leaves the
\* race state - athletes, currentCheckpoint, checkpointHistory,
\* lapsRemaining, the flags and the action log - exactly as it was.
C5_RejectedAssignChangesNothing ==
    \A in \in EveryInput :
        LET r == AssignPointsToAthlete(W, in[1], in[2], in[3], in[4])
        IN  ~r.ret => RaceState(r.w) = RaceState(W)

\* C6: a checkpoint that has just been opened (by startRace, by the
\* completion of the previous checkpoint or by undo) offers 3, 2, 1 if and
\* only if lapsRemaining is 1 under every_lap or 2 under every_2_laps, and
\* offers 2, 1 otherwise.
C6_PoolFollowsFinalRule ==
    (raceStarted /\ Len(currentCheckpoint.assignedAthletes) = 0) =>
        LET final == \/ config.pointsFrequency = "every_lap" /\ lapsRemaining = 1
                     \/ config.pointsFrequency = "every_2_laps" /\ lapsRemaining = 2
        IN  /\ final => currentCheckpoint.availablePoints = <<3, 2, 1>>
            /\ ~final => currentCheckpoint.availablePoints = <<2, 1>>

\* the second checkpoint of a two-lap race, opened by the completion of the
\* first and reopened by an undo: it is the final one
C6_Witness ==
    /\ raceStarted
    /\ config = [totalLaps |-> 2, pointsFrequency |-> "every_lap"]
    /\ currentCheckpoint = [number |-> 2, assignedAthletes |-> <<>>,
                            availablePoints |-> <<3, 2, 1>>]
    /\ CopiesIn("completed", actionLog) = 1
    /\ CopiesIn("undo", actionLog) = 1

\* C7: a started race that has not ended never sits on an exhausted pool
\* with lapsRemaining different from 0: filling checkpoints leads to the
\* final checkpoint and then to lapsRemaining = 0, where the race can end.
C7_NeverStuckBeforeTheFinish ==
    (raceStarted /\ ~raceEnded /\ Len(currentCheckpoint.availablePoints) = 0)
        => lapsRemaining = 0

\* a click on btnUndo answered at once by a click on dialogConfirm
UndoConfirmed(w) == DialogConfirm(UndoLastCheckpoint(w))

NumbersOf(assignments) == {assignments[i].number : i \in 1..Len(assignments)}

\* w1 is back where w0 was: the lap countdown, the open checkpoint, the
\* history, and the points of every athlete (an athlete registered since
\* w0 has none)
RoundTripRestores(w0, w1) ==
    /\ w1.lapsRemaining = w0.lapsRemaining
    /\ w1.currentCheckpoint = w0.currentCheckpoint
    /\ w1.checkpointHistory = w0.checkpointHistory
    /\ Len(w1.athletes) >= Len(w0.athletes)
    /\ \A i \in 1..Len(w1.athletes) :
           IF i <= Len(w0.athletes)
           THEN /\ w1.athletes[i].number = w0.athletes[i].number
                /\ w1.athletes[i].points = w0.athletes[i].points
           ELSE w1.athletes[i].points = 0

\* every way of filling the open checkpoint of w by successful assignments,
\* followed at once by a confirmed undo, restores w0
RECURSIVE FillThenUndoRestores(_, _)
FillThenUndoRestores(w0, w) ==
    \A a \in AthleteNumbers, p \in PointButtons :
        LET r == AssignPointsToAthlete(w, a, p, "", "")
        IN  r.ret =>
                IF Len(w.currentCheckpoint.availablePoints) = 1
                THEN RoundTripRestores(w0, UndoConfirmed(r.w))
                ELSE FillThenUndoRestores(w0, r.w)

\* C8: filling a freshly opened checkpoint by successful assignments until
\* it completes and undoing it at once restores lapsRemaining, every
\* athlete's points, the checkpoint number, the full pool and the history.
C8_FillThenUndoRoundTrip ==
    (raceStarted /\ ~raceEnded /\ Len(currentCheckpoint.assignedAthletes) = 0)
        => FillThenUndoRestores(W, W)

\* a final checkpoint filled by three athletes, completed and undone, with
\* nothing else done in the race
C8_Witness ==
    /\ CopiesIn("completed", actionLog) = 1
    /\ CopiesIn("undo", actionLog) = 1
    /\ CopiesIn("removed", actionLog) = 3
    /\ CopiesIn("assigned", actionLog) = 3
    /\ CorrectionsLogged = 1
    /\ lapsRemaining = config.totalLaps
    /\ currentCheckpoint = [number |-> 1, assignedAthletes |-> <<>>,
                            availablePoints |-> <<3, 2, 1>>]
    /\ checkpointHistory = <<>>
    /\ Len(athletes) = 3
    /\ \A i \in 1..3 : athletes[i].points = 0

NoNumberTwice(assignments) == Cardinality(NumbersOf(assignments)) = Len(assignments)

\* C9: a second assignPoints for an athlete already assigned in the open
\* checkpoint is rejected as a duplicate for every value still available and
\* changes neither athletes nor the checkpoint; no athlete number appears
\* twice in assignedAthletes or in one history entry.
C9_DuplicateAssignmentRejected ==
    /\ \A a \in NumbersOf(currentCheckpoint.assignedAthletes),
          p \in Range(currentCheckpoint.availablePoints),
          name \in Names, surname \in Surnames :
           LET r == AssignPointsToAthlete(W, a, p, name, surname)
           IN  /\ ~r.ret
               /\ r.alert = "DuplicateAssignment"
               /\ r.w.athletes = athletes
               /\ r.w.currentCheckpoint = currentCheckpoint
    /\ NoNumberTwice(currentCheckpoint.assignedAthletes)
    /\ \A k \in 1..Len(checkpointHistory) : NoNumberTwice(checkpointHistory[k].athletes)

\* an athlete holds one value of the final checkpoint, two are still
\* available, and asking for one of them is answered as a duplicate
C9_Witness ==
    /\ Len(currentCheckpoint.assignedAthletes) = 1
    /\ Len(currentCheckpoint.availablePoints) = 2
    /\ \E p \in Range(currentCheckpoint.availablePoints) :
           AssignPointsToAthlete(W, currentCheckpoint.assignedAthletes[1].number,
                                 p, "", "").alert = "DuplicateAssignment"

\* C10: a successful assignPoints that takes the last available value
\* completes the checkpoint in the same call: lapsRemaining drops by 1
\* (every_lap) or 2 (every_2_laps) and, if it is still > 0, the next
\* checkpoint is open on return (number + 1, nobody assigned, full pool); a
\* successful assignment that leaves a value available changes neither
\* lapsRemaining nor the checkpoint number.
C10_CompletionWithinTheCall ==
    \A a \in AthleteNumbers, p \in PointButtons :
        LET r == AssignPointsToAthlete(W, a, p, "", "")
            d == IF config.pointsFrequency = "every_lap" THEN 1 ELSE 2
            after == r.w.currentCheckpoint
            final == \/ config.pointsFrequency = "every_lap" /\ r.w.lapsRemaining = 1
                     \/ config.pointsFrequency = "every_2_laps" /\ r.w.lapsRemaining = 2
        IN  r.ret =>
                IF Len(currentCheckpoint.availablePoints) = 1
                THEN /\ r.w.lapsRemaining = lapsRemaining - d
                     /\ r.w.lapsRemaining > 0 =>
                            /\ after.number = currentCheckpoint.number + 1
                            /\ after.assignedAthletes = <<>>
                            /\ after.availablePoints = IF final THEN <<3, 2, 1>> ELSE <<2, 1>>
                     /\ r.w.lapsRemaining <= 0 =>
                            /\ after.number = currentCheckpoint.number
                            /\ after.availablePoints = <<>>
                ELSE /\ r.w.lapsRemaining = lapsRemaining
                     /\ after.number = currentCheckpoint.number
                     /\ Len(after.availablePoints) = Len(currentCheckpoint.availablePoints) - 1

\* the first checkpoint has just completed and the second one is open
C10_Witness ==
    /\ CopiesIn("completed", actionLog) = 1
    /\ CorrectionsLogged = 0
    /\ lapsRemaining = 1
    /\ config.totalLaps = 2
    /\ currentCheckpoint = [number |-> 2, assignedAthletes |-> <<>>,
                            availablePoints |-> <<3, 2, 1>>]
    /\ Len(checkpointHistory) = 1

\* ===================================================== claims C11 - C20

\* a click on dialogConfirm that runs the callback of kind `kind`
Confirmed(kind) ==
    /\ dialogCallback.kind = kind
    /\ dialogCallback' = NoCallback
    /\ RaceState(DialogConfirm(W)) = [config |-> config', raceStarted |-> raceStarted',
                                      raceEnded |-> raceEnded', lapsRemaining |-> lapsRemaining',
                                      athletes |-> athletes',
                                      currentCheckpoint |-> currentCheckpoint',
                                      checkpointHistory |-> checkpointHistory',
                                      actionLog |-> actionLog']

C12_UndoOnlyWhenCanUndo ==
    /\ CanUndo(W) <=> (Len(checkpointHistory) > 0 /\ ~raceEnded)
    /\ (Len(checkpointHistory) > 0 /\ ~raceEnded)
           => UndoLastCheckpoint(W).dialogCallback.kind = "undo"
    /\ (Len(checkpointHistory) = 0 \/ raceEnded) => UndoLastCheckpoint(W) = W
    /\ (Len(checkpointHistory) = 1 /\ ~raceEnded) =>
           LET w1 == UndoConfirmed(W)
           IN  /\ ~CanUndo(w1)
               /\ UndoLastCheckpoint(w1) = w1

\* an ended race with its history, and the undo of it refused
C12_Witness ==
    /\ raceEnded
    /\ Len(checkpointHistory) > 0
    /\ ~CanUndo(W)
    /\ UndoLastCheckpoint(W) = W

\* the athlete of number n, as the leaderboard shows it
Standing(w, n) ==
    LET athlete == GetAthlete(w.athletes, n)
    IN  [points |-> athlete.points, savedPoints |-> athlete.savedPoints,
         status |-> athlete.status]

\* C13: for a Normal athlete with points p, lap followed by unlap gives
\* points = p, savedPoints = 0 and status Normal.
C13_LapUnlapRoundTrip ==
    \A i \in 1..Len(athletes) :
        athletes[i].status = "normal" =>
            LET n == athletes[i].number
                w1 == LapAthlete(W, n)
                w2 == UnlapAthlete(w1, n)
            IN  /\ Standing(w1, n) = [points |-> 0, savedPoints |-> athletes[i].points,
                                      status |-> "lapped"]
                /\ Standing(w2, n) = [points |-> athletes[i].points, savedPoints |-> 0,
                                      status |-> "normal"]

\* an athlete with points has been lapped and unlapped and has them again
C13_Witness ==
    /\ CopiesIn("lapped", actionLog) = 1
    /\ CopiesIn("unlapped", actionLog) = 1
    /\ \E i \in 1..Len(athletes) :
           /\ athletes[i].status = "normal"
           /\ athletes[i].points = 3
           /\ athletes[i].savedPoints = 0
    /\ \A i \in 1..Len(athletes) : athletes[i].status = "normal"

\* disqualifyAthlete followed at once by reinstateAthlete, for athlete n
DisqualifyReinstate(w, n) == ReinstateAthlete(DisqualifyAthlete(w, n), n)

\* C14 as stated: for an athlete that is Normal or Lapped, with points p
\* immediately before disqualify, disqualify followed by reinstate gives
\* points = p and status Normal.
C14_DisqualifyReinstateRestoresPoints ==
    \A i \in 1..Len(athletes) :
        athletes[i].status \in {"normal", "lapped"} =>
            Standing(DisqualifyReinstate(W, athletes[i].number), athletes[i].number)
                = [points |-> athletes[i].points, savedPoints |-> 0, status |-> "normal"]

\* C14 amended: disqualify followed by reinstate gives status Normal and
\* savedPoints 0; a Normal athlete gets back the points it had immediately
\* before disqualify, a Lapped athlete gets the savedPoints it carried (its
\* total from before it was lapped), not the points it had as Lapped.
C14_DisqualifyReinstateBySavedPoints ==
    \A i \in 1..Len(athletes) :
        athletes[i].status \in {"normal", "lapped"} =>
            Standing(DisqualifyReinstate(W, athletes[i].number), athletes[i].number)
                = [points |-> IF athletes[i].status = "lapped"
                              THEN athletes[i].savedPoints
                              ELSE athletes[i].points,
                   savedPoints |-> 0, status |-> "normal"]

\* an athlete with points has been disqualified and reinstated and has them
\* again
C14_Witness ==
    /\ CopiesIn("disqualified", actionLog) = 1
    /\ CopiesIn("reinstated", actionLog) = 1
    /\ \E i \in 1..Len(athletes) :
           /\ athletes[i].status = "normal"
           /\ athletes[i].points = 2
           /\ athletes[i].savedPoints = 0
    /\ \A i \in 1..Len(athletes) : athletes[i].status = "normal"

\* C15: unlap of an athlete that is not Lapped and reinstate of an athlete
\* that is not Disqualified are rejected: the athlete's points, savedPoints
\* and status, and every other variable, stay as they are.
C15_WrongStatusRejected ==
    \A n \in AthleteNumbers :
        LET known == HasAthlete(athletes, n)
        IN  /\ (~known \/ GetAthlete(athletes, n).status # "lapped")
                   => UnlapAthlete(W, n) = W
            /\ (~known \/ GetAthlete(athletes, n).status # "disqualified")
                   => ReinstateAthlete(W, n) = W

\* a Disqualified athlete that unlap leaves alone and a Lapped athlete that
\* reinstate leaves alone, both with points saved
C15_Witness ==
    \E i, j \in 1..Len(athletes) :
        /\ athletes[i].status = "disqualified"
        /\ athletes[i].savedPoints > 0
        /\ UnlapAthlete(W, athletes[i].number) = W
        /\ athletes[j].status = "lapped"
        /\ athletes[j].savedPoints > 0
        /\ ReinstateAthlete(W, athletes[j].number) = W

\* the values of the buttons of the modify-points submenu
ModifyValues == {1, 2, 3, -1, -2, -3}

Max(x, y) == IF x >= y THEN x ELSE y

\* C16: modifyPoints(athlete, delta) sets the points of that athlete to
\* max(0, points + delta) and, the log entry, the saved snapshot and the
\* leaderboard table it renders aside,
\* changes nothing else: the open checkpoint, the history, lapsRemaining,
\* the athlete's status and savedPoints and every other athlete stay as
\* they are; for a number that is not registered it changes nothing.
C16_ModifyChangesOnlyPoints ==
    \A n \in AthleteNumbers, delta \in ModifyValues :
        LET r == ModifyAthletePointsFree(W, n, delta)
        IN  IF HasAthlete(athletes, n)
            THEN LET i == AthleteIndex(athletes, n)
                 IN  [r EXCEPT !.actionLog = actionLog, !.saved = saved,
                               !.leaderboardContent = leaderboardContent]
                         = [W EXCEPT !.athletes[i].points = Max(0, athletes[i].points + delta)]
            ELSE r = W

\* an athlete assigned 2 points and then given 2 more by a modification,
\* the open checkpoint still holding the assignment of 2
C16_Witness ==
    /\ CopiesIn("modify", actionLog) = 1
    /\ CopiesIn("assigned", actionLog) = 1
    /\ Len(athletes) = 1
    /\ athletes[1].points = 4
    /\ currentCheckpoint.assignedAthletes = <<[number |-> 1, points |-> 2]>>
    /\ currentCheckpoint.availablePoints = <<1>>

\* the leaderboard computed from the current athletes and history
Leaderboard == RenderLeaderboard(W).leaderboardContent

Bucket(athlete) ==
    CASE athlete.status = "disqualified" -> 2
      [] athlete.status = "lapped" -> 1
      [] OTHER -> 0

\* C17: in the leaderboard every Normal athlete precedes every Lapped one,
\* every Lapped one precedes every Disqualified one, and within one status
\* an athlete with strictly more points precedes one with fewer; the
\* leaderboard lists every athlete once.
C17_LeaderboardByStatusThenPoints ==
    /\ Len(Leaderboard) = Len(athletes)
    /\ Range(Leaderboard) = Range(athletes)
    /\ \A i, j \in 1..Len(Leaderboard) :
           i < j =>
               /\ Bucket(Leaderboard[i]) <= Bucket(Leaderboard[j])
               /\ Bucket(Leaderboard[i]) = Bucket(Leaderboard[j])
                      => Leaderboard[i].points >= Leaderboard[j].points

\* the table on the screen: athlete 3 leads with 3 points, athlete 2 follows
\* with 1, athlete 1, registered first and lapped since, is last
C17_Witness ==
    /\ Len(leaderboardContent) = 3
    /\ leaderboardContent = Leaderboard
    /\ leaderboardContent[1].number = 3
    /\ leaderboardContent[1].points = 3
    /\ leaderboardContent[1].status = "normal"
    /\ leaderboardContent[2].number = 2
    /\ leaderboardContent[2].points = 1
    /\ leaderboardContent[2].status = "normal"
    /\ leaderboardContent[3].number = 1
    /\ leaderboardContent[3].status = "lapped"

\* the history entries that hold an assignment of 3 points
EntriesWith3 ==
    {k \in 1..Len(checkpointHistory) :
        3 \in {checkpointHistory[k].athletes[i].points :
                  i \in 1..Len(checkpointHistory[k].athletes)}}

\* the assignments of the most recent of them
FinalAssignments == checkpointHistory[CHOOSE k \in EntriesWith3 : \A j \in EntriesWith3 : j <= k].athletes

\* points of athlete n in those assignments, 0 if it has none
FinalPointsOf(n) ==
    IF \E i \in 1..Len(FinalAssignments) : FinalAssignments[i].number = n
    THEN (CHOOSE a \in Range(FinalAssignments) : a.number = n).points
    ELSE 0

\* C18: of two athletes of one status with equal points, the leaderboard
\* puts first the one with more points in the most recent history entry
\* that holds a 3 (an athlete not in that entry counts as 0 points); when
\* both have none there, or no entry holds a 3, it is a tie: they keep the
\* order in which they were registered, and nothing fails.
C18_TieBreakByFinalCheckpoint ==
    \A i, j \in 1..Len(Leaderboard) :
        (/\ i < j
         /\ Bucket(Leaderboard[i]) = Bucket(Leaderboard[j])
         /\ Leaderboard[i].points = Leaderboard[j].points)
        => LET a == Leaderboard[i].number
               b == Leaderboard[j].number
               registeredFirst == AthleteIndex(athletes, a) < AthleteIndex(athletes, b)
           IN  IF EntriesWith3 = {}
               THEN registeredFirst
               ELSE \/ FinalPointsOf(a) > FinalPointsOf(b)
                    \/ FinalPointsOf(a) = 0 /\ FinalPointsOf(b) = 0 /\ registeredFirst

\* athletes 1 and 3 both have 2 points; athlete 3 took its 2 in the final
\* checkpoint, athlete 1 has nothing there: 3 is shown before 1
C18_Witness ==
    /\ Len(leaderboardContent) = 3
    /\ leaderboardContent = Leaderboard
    /\ EntriesWith3 # {}
    /\ \A i \in 1..3 : leaderboardContent[i].status = "normal"
    /\ leaderboardContent[2].number = 3
    /\ leaderboardContent[2].points = 2
    /\ leaderboardContent[3].number = 1
    /\ leaderboardContent[3].points = 2
    /\ FinalPointsOf(3) = 2
    /\ FinalPointsOf(1) = 0

Sign(x) == IF x > 0 THEN 1 ELSE IF x < 0 THEN -1 ELSE 0

\* the comparison function orders the athletes consistently, so the result
\* of sort does not depend on the order in which sort compares them
ComparisonIsConsistent ==
    \A a, b, c \in Range(athletes) :
        /\ Sign(CompareAthletes(W, a, b)) = -Sign(CompareAthletes(W, b, a))
        /\ (CompareAthletes(W, a, b) <= 0 /\ CompareAthletes(W, b, c) <= 0)
               => CompareAthletes(W, a, c) <= 0

\* a record that shares only athletes and checkpointHistory with the
\* current one
SameAthletesAndHistory ==
    [W EXCEPT !.config = [totalLaps |-> 0, pointsFrequency |-> "every_lap"],
              !.raceStarted = ~raceStarted,
              !.raceEnded = ~raceEnded,
              !.lapsRemaining = 0,
              !.currentCheckpoint = EmptyCheckpoint,
              !.actionLog = EmptyBag,
              !.saved = NoSave,
              !.leaderboardContent = <<>>]

\* C19: computing the leaderboard has no side effect (athletes,
\* checkpointHistory and the rest of the race state are as before, only the
\* table is rewritten) and is deterministic: the order is a function of
\* athletes and checkpointHistory alone, computing it again gives the same
\* order, and the comparison it sorts by is consistent.
C19_LeaderboardIsPure ==
    /\ [RenderLeaderboard(W) EXCEPT !.leaderboardContent = leaderboardContent] = W
    /\ RenderLeaderboard(RenderLeaderboard(W)) = RenderLeaderboard(W)
    /\ RenderLeaderboard(SameAthletesAndHistory).leaderboardContent = Leaderboard
    /\ ComparisonIsConsistent

\* the table on the screen is in another order than the Map of the athletes
C19_Witness ==
    /\ Len(athletes) = 3
    /\ leaderboardContent = Leaderboard
    /\ leaderboardContent # athletes
    /\ leaderboardContent[1].number = 3
    /\ EntriesWith3 # {}

\* the part of the race state a reload has to resume
Resumed(w) ==
    [raceStarted |-> w.raceStarted, raceEnded |-> w.raceEnded,
     lapsRemaining |-> w.lapsRemaining, athletes |-> w.athletes,
     currentCheckpoint |-> w.currentCheckpoint,
     checkpointHistory |-> w.checkpointHistory]

\* loading the snapshot saved last gives back the race state of w
SnapshotIsCurrent(w) ==
    /\ w.saved # NoSave
    /\ Resumed(LoadFromLocalStorage(w)) = Resumed(w)

\* a status change, a modification, a confirmed undo and a confirmed endRace
\* leave the snapshot current
CorrectionsAreSaved ==
    /\ \A n \in AthleteNumbers :
           HasAthlete(athletes, n) =>
               /\ SnapshotIsCurrent(LapAthlete(W, n))
               /\ SnapshotIsCurrent(DisqualifyAthlete(W, n))
               /\ GetAthlete(athletes, n).status = "lapped"
                      => SnapshotIsCurrent(UnlapAthlete(W, n))
               /\ GetAthlete(athletes, n).status = "disqualified"
                      => SnapshotIsCurrent(ReinstateAthlete(W, n))
               /\ \A delta \in ModifyValues :
                      SnapshotIsCurrent(ModifyAthletePointsFree(W, n, delta))
    /\ CanUndo(W) => SnapshotIsCurrent(UndoConfirmed(W))
    /\ (raceStarted /\ ~raceEnded) => SnapshotIsCurrent(DialogConfirm(EndRace(W)))

\* C20: when a mutating operation has returned - a successful assignPoints
\* (one that completes a checkpoint included), a status change,
\* modifyPoints, a confirmed undo, a confirmed endRace - the snapshot saved
\* last equals the race state in memory, so loading it resumes that state.
C20_SnapshotFollowsEveryOperation ==
    /\ \A in \in EveryInput :
           LET r == AssignPointsToAthlete(W, in[1], in[2], in[3], in[4])
           IN  r.ret => SnapshotIsCurrent(r.w)
    /\ CorrectionsAreSaved

\* ===================================================== claims C21 - C30
\* the values the open checkpoint was opened with: those still available
\* and those handed out
OpenedPool == Range(currentCheckpoint.availablePoints) \cup AssignedPoints

\* 2 points to athlete a and 1 point to athlete b, in either order
TwoThenOne(w, a, b) ==
    AssignPointsToAthlete(AssignPointsToAthlete(w, a, 2, "", "").w, b, 1, "", "")

OneThenTwo(w, a, b) ==
    AssignPointsToAthlete(AssignPointsToAthlete(w, b, 1, "", "").w, a, 2, "", "")

\* C21: with every_lap, totalLaps = N and no undo, the open checkpoint is
\* number N - lapsRemaining + 1; checkpoints 1..N-1 are opened with 2, 1
\* and checkpoint N with 3, 2, 1; after the two assignments of checkpoint 1
\* (2 and 1 to two distinct athletes) lapsRemaining is N - 1 and checkpoint
\* 2 is open with its full pool.
C21_EveryLapScenario ==
    (/\ raceStarted
     /\ config.pointsFrequency = "every_lap"
     /\ CopiesIn("undo", actionLog) = 0)
    => LET N == config.totalLaps
       IN  /\ lapsRemaining > 0 =>
                  /\ currentCheckpoint.number = N - lapsRemaining + 1
                  /\ currentCheckpoint.number < N => OpenedPool = {2, 1}
                  /\ currentCheckpoint.number = N => OpenedPool = {3, 2, 1}
           /\ (/\ N >= 2
               /\ currentCheckpoint = [number |-> 1, assignedAthletes |-> <<>>,
                                       availablePoints |-> <<2, 1>>])
              => \A a, b \in AthleteNumbers :
                     a # b =>
                         \A r \in {TwoThenOne(W, a, b), OneThenTwo(W, a, b)} :
                             /\ r.ret
                             /\ r.w.lapsRemaining = N - 1
                             /\ r.w.currentCheckpoint =
                                    [number |-> 2, assignedAthletes |-> <<>>,
                                     availablePoints |->
                                         IF N = 2 THEN <<3, 2, 1>> ELSE <<2, 1>>]

\* a race of four laps scored every lap: three checkpoints of 2, 1 are in
\* the history and the fourth is open with 3, 2, 1
C21_Witness ==
    /\ config = [totalLaps |-> 4, pointsFrequency |-> "every_lap"]
    /\ CopiesIn("undo", actionLog) = 0
    /\ Len(checkpointHistory) = 3
    /\ \A k \in 1..3 : Len(checkpointHistory[k].athletes) = 2
    /\ lapsRemaining = 1
    /\ currentCheckpoint = [number |-> 4, assignedAthletes |-> <<>>,
                            availablePoints |-> <<3, 2, 1>>]

\* the rejection the order of the checks prescribes for a call, "none" when
\* every check passes
FirstFailingCheck(athleteNumber, points) ==
    IF raceEnded THEN "RaceEnded"
    ELSE IF points \notin Range(currentCheckpoint.availablePoints) THEN "PointsNotAvailable"
    ELSE IF athleteNumber \in NumbersOf(currentCheckpoint.assignedAthletes)
    THEN "DuplicateAssignment"
    ELSE IF /\ HasAthlete(athletes, athleteNumber)
            /\ GetAthlete(athletes, athleteNumber).status = "disqualified"
    THEN "AthleteDisqualified"
    ELSE "none"

\* C22: assignPoints checks race ended, value not available, athlete
\* already assigned in this checkpoint, athlete Disqualified, in this order:
\* the rejection reported is that of the first check that fails, and the
\* call succeeds exactly when none fails.
C22_ChecksInOrder ==
    \A in \in EveryInput :
        LET r == AssignPointsToAthlete(W, in[1], in[2], in[3], in[4])
        IN  /\ r.alert = FirstFailingCheck(in[1], in[2])
            /\ r.ret <=> (r.alert = "none")

\* a running race where an athlete holds a value of the open checkpoint and
\* has been disqualified since: asked for a value that is gone the answer
\* is PointsNotAvailable, asked for one still there it is
\* DuplicateAssignment, never AthleteDisqualified
C22_Witness ==
    /\ ~raceEnded
    /\ \E i \in 1..Len(athletes) :
           LET n == athletes[i].number
           IN  /\ athletes[i].status = "disqualified"
               /\ n \in NumbersOf(currentCheckpoint.assignedAthletes)
               /\ \E p, q \in PointButtons :
                      /\ AssignPointsToAthlete(W, n, p, "", "").alert = "PointsNotAvailable"
                      /\ AssignPointsToAthlete(W, n, q, "", "").alert = "DuplicateAssignment"

\* seq without its first occurrence of x, the order of the rest kept
Without(seq, x) == Splice(seq, IndexOf(seq, x))

\* every athlete registered before the call, a excepted, is as it was
OthersUntouched(w, a) ==
    \A i \in 1..Len(athletes) :
        athletes[i].number # a => w.athletes[i] = athletes[i]

\* C23: a successful assignPoints(a, p) registers a with status Normal and
\* points 0 if it was unseen, adds exactly p to a's points, appends (a, p)
\* at the end of assignedAthletes and removes p from availablePoints; no
\* other athlete changes.  When the call also completes the checkpoint and
\* opens the next one, the appended list is the one the history entry of the
\* completed checkpoint holds.
C23_AssignEffect ==
    \A in \in EveryInput :
        LET a == in[1]
            p == in[2]
            r == AssignPointsToAthlete(W, a, p, in[3], in[4])
            appended == Append(currentCheckpoint.assignedAthletes,
                               [number |-> a, points |-> p])
            after == GetAthlete(r.w.athletes, a)
        IN  r.ret =>
                /\ OthersUntouched(r.w, a)
                /\ IF HasAthlete(athletes, a)
                   THEN /\ Len(r.w.athletes) = Len(athletes)
                        /\ AthleteIndex(r.w.athletes, a) = AthleteIndex(athletes, a)
                        /\ after.points = GetAthlete(athletes, a).points + p
                        /\ after.status = GetAthlete(athletes, a).status
                        /\ after.savedPoints = GetAthlete(athletes, a).savedPoints
                   ELSE /\ Len(r.w.athletes) = Len(athletes) + 1
                        /\ r.w.athletes[Len(r.w.athletes)] =
                               [number |-> a, name |-> in[3], surname |-> in[4],
                                points |-> p, status |-> "normal", savedPoints |-> 0]
                /\ r.w.checkpointHistory[Len(r.w.checkpointHistory)].athletes = appended
                /\ r.w.currentCheckpoint.number = currentCheckpoint.number =>
                       /\ r.w.currentCheckpoint.assignedAthletes = appended
                       /\ r.w.currentCheckpoint.availablePoints =
                              Without(currentCheckpoint.availablePoints, p)

\* athlete 1 has 2 points from the first checkpoint and takes the 3 of the
\* second; athlete 3, unseen so far, takes the 2 after it
C23_Witness ==
    /\ Len(athletes) = 3
    /\ athletes[1].points = 5
    /\ athletes[3] = [number |-> 3, name |-> "", surname |-> "",
                      points |-> 2, status |-> "normal", savedPoints |-> 0]
    /\ currentCheckpoint = [number |-> 2,
                            assignedAthletes |-> <<[number |-> 1, points |-> 3],
                                                   [number |-> 3, points |-> 2]>>,
                            availablePoints |-> <<1>>]
    /\ CorrectionsLogged = 0

\* the number of values of the pool a checkpoint opened at `laps` laps has
PoolSizeAt(laps) ==
    IF \/ config.pointsFrequency = "every_lap" /\ laps = 1
       \/ config.pointsFrequency = "every_2_laps" /\ laps = 2
    THEN 3
    ELSE 2

NobodyRemoved ==
    /\ Len(athletes') >= Len(athletes)
    /\ \A i \in 1..Len(athletes) : athletes'[i].number = athletes[i].number

\* an assignment that registers a new athlete, undone at once: the athlete
\* stays registered, with the points of the assignment taken back
UndoKeepsTheNewAthlete ==
    \A a \in AthleteNumbers, p \in PointButtons :
        LET r == AssignPointsToAthlete(W, a, p, "", "")
        IN  (~HasAthlete(athletes, a) /\ r.ret) =>
                LET w1 == UndoConfirmed(r.w)
                IN  /\ HasAthlete(w1.athletes, a)
                    /\ GetAthlete(w1.athletes, a).points = 0
                    /\ Len(w1.athletes) = Len(athletes) + 1

\* C25: while a race is active (until resetRace discards it) no athlete is
\* removed from the registry: no assignment, status change, modification or
\* undo deletes one, and an athlete created by an assignment that is undone
\* stays registered with that assignment's points subtracted.
C25_NoAthleteRemoved ==
    /\ [][~Confirmed("reset") => NobodyRemoved]_vars
    /\ []UndoKeepsTheNewAthlete

\* the first checkpoint of a race was scored for two new athletes and
\* undone: both are registered, without points
C25_Witness ==
    /\ raceStarted
    /\ CopiesIn("undo", actionLog) = 1
    /\ CopiesIn("removed", actionLog) = 2
    /\ checkpointHistory = <<>>
    /\ Len(athletes) = 2
    /\ \A i \in 1..2 : athletes[i].points = 0

\* laps counted off by the completion of a checkpoint
Decrement == IF config.pointsFrequency = "every_lap" THEN 1 ELSE 2

\* C26: the 3 is offered only at the checkpoint that coincides with the
\* finish: a checkpoint opened with 3, 2, 1 is open with exactly the laps
\* of one checkpoint left, and the assignment that completes it returns
\* with lapsRemaining = 0, the End button shown and no further checkpoint
\* opened; this for both frequencies, also after undo.
C26_ThreeOnlyAtTheFinish ==
    (raceStarted /\ 3 \in OpenedPool) =>
        /\ Len(currentCheckpoint.availablePoints) > 0 => lapsRemaining = Decrement
        /\ Len(currentCheckpoint.availablePoints) = 0 => lapsRemaining = 0
        /\ \A k \in 1..Len(checkpointHistory) :
               3 \in {checkpointHistory[k].athletes[i].points :
                         i \in 1..Len(checkpointHistory[k].athletes)}
                   => k = Len(checkpointHistory)
        /\ Len(currentCheckpoint.availablePoints) = 1 =>
               \A a \in AthleteNumbers, p \in PointButtons :
                   LET r == AssignPointsToAthlete(W, a, p, "", "")
                   IN  r.ret =>
                           /\ r.w.lapsRemaining = 0
                           /\ ~r.w.btnEndRaceHidden
                           /\ r.w.currentCheckpoint.number = currentCheckpoint.number
                           /\ r.w.currentCheckpoint.availablePoints = <<>>
                           /\ Len(r.w.currentCheckpoint.assignedAthletes) = 3

\* four laps scored every two laps: the second checkpoint, with the 3, has
\* been undone and completed again, and the laps are at 0
C26_Witness ==
    /\ config = [totalLaps |-> 4, pointsFrequency |-> "every_2_laps"]
    /\ CopiesIn("undo", actionLog) = 1
    /\ lapsRemaining = 0
    /\ Len(checkpointHistory) = 2
    /\ currentCheckpoint.number = 2
    /\ currentCheckpoint.availablePoints = <<>>
    /\ AssignedPoints = {3, 2, 1}
    /\ ~btnEndRaceHidden

\* the entry a confirmed undo takes back
LastEntry == checkpointHistory[Len(checkpointHistory)]

\* the points the assignments record for athlete n, from assignment k on
RECURSIVE PointsRecorded(_, _, _)
PointsRecorded(assignments, n, k) ==
    IF k > Len(assignments)
    THEN 0
    ELSE (IF assignments[k].number = n THEN assignments[k].points ELSE 0)
             + PointsRecorded(assignments, n, k + 1)

C28_UndoKeepsStatus ==
    CanUndo(W) =>
        LET w1 == UndoConfirmed(W)
        IN  /\ Len(w1.athletes) = Len(athletes)
            /\ \A i \in 1..Len(athletes) :
                   /\ w1.athletes[i].status = athletes[i].status
                   /\ w1.athletes[i].savedPoints = athletes[i].savedPoints
                   /\ athletes[i].number \notin NumbersOf(LastEntry.athletes)
                          => w1.athletes[i] = athletes[i]

\* an athlete was given 2 points and lapped, then the checkpoint was undone:
\* the athlete is still lapped with 2 saved points
C28_Witness ==
    /\ CopiesIn("undo", actionLog) = 1
    /\ \E i \in 1..Len(athletes) :
           /\ athletes[i].status = "lapped"
           /\ athletes[i].savedPoints = 2
           /\ athletes[i].points = -2

\* the pool the checkpoint of the last entry was opened with: the values the
\* entry records, and the values still available when it is the open one
PoolOfLastEntry ==
    {LastEntry.athletes[i].points : i \in 1..Len(LastEntry.athletes)}
        \cup (IF LastEntry.number = currentCheckpoint.number
              THEN Range(currentCheckpoint.availablePoints)
              ELSE {})

\* C29: after a confirmed undo of entry e, lapsRemaining is
\* e.lapsBeforeDecrement, the open checkpoint has e's number, no assignment
\* and the pool of the final-checkpoint rule at the restored lapsRemaining,
\* and that pool is the one checkpoint e.number was opened with, whatever
\* status change or modification of points came in between.
C29_UndoReopensTheCheckpoint ==
    CanUndo(W) =>
        LET w1 == UndoConfirmed(W)
        IN  /\ w1.lapsRemaining = LastEntry.lapsBeforeDecrement
            /\ w1.currentCheckpoint.number = LastEntry.number
            /\ w1.currentCheckpoint.assignedAthletes = <<>>
            /\ w1.currentCheckpoint.availablePoints =
                   (IF IsNextCheckpointFinal(w1) THEN <<3, 2, 1>> ELSE <<2, 1>>)
            /\ Range(w1.currentCheckpoint.availablePoints) = PoolOfLastEntry

\* the final checkpoint of a two-lap race was undone after the points of an
\* athlete were lowered: it is open again with 3, 2, 1
C29_Witness ==
    /\ CopiesIn("undo", actionLog) = 1
    /\ CopiesIn("modify", actionLog) = 1
    /\ \E i \in 1..Len(athletes) : athletes[i].points < 0
    /\ lapsRemaining = 1
    /\ currentCheckpoint = [number |-> 2, assignedAthletes |-> <<>>,
                            availablePoints |-> <<3, 2, 1>>]
    /\ Len(checkpointHistory) = 1

\* C30: disqualifying a Lapped athlete leaves in savedPoints the total it
\* had before it was lapped and sets points to 0; reinstating it then gives
\* points = that total and savedPoints = 0.  Checked for every athlete that
\* is Lapped in a reachable state (whatever it was given or lost since) and
\* for lap, disqualify, reinstate applied in a row to every Normal athlete.
C30_LappedDisqualifiedReinstated ==
    \A i \in 1..Len(athletes) :
        LET n == athletes[i].number
        IN  /\ athletes[i].status = "lapped" =>
                LET w1 == DisqualifyAthlete(W, n)
                    w2 == ReinstateAthlete(w1, n)
                IN  /\ Standing(w1, n) = [points |-> 0,
                                          savedPoints |-> athletes[i].savedPoints,
                                          status |-> "disqualified"]
                    /\ Standing(w2, n) = [points |-> athletes[i].savedPoints,
                                          savedPoints |-> 0, status |-> "normal"]
            /\ athletes[i].status = "normal" =>
                LET w1 == DisqualifyAthlete(LapAthlete(W, n), n)
                    w2 == ReinstateAthlete(w1, n)
                IN  /\ Standing(w1, n) = [points |-> 0,
                                          savedPoints |-> athletes[i].points,
                                          status |-> "disqualified"]
                    /\ Standing(w2, n) = [points |-> athletes[i].points,
                                          savedPoints |-> 0, status |-> "normal"]

\* an athlete with 3 points has been lapped and then disqualified: its 3
\* points are saved, and nobody else has had a status change
C30_Witness ==
    /\ CopiesIn("lapped", actionLog) = 1
    /\ CopiesIn("disqualified", actionLog) = 1
    /\ \E i \in 1..Len(athletes) :
           /\ athletes[i].status = "disqualified"
           /\ athletes[i].savedPoints = 3
           /\ athletes[i].points = 0
           /\ \A j \in 1..Len(athletes) :
                  j # i => athletes[j].status = "normal" /\ athletes[j].savedPoints = 0

\* ------------------------------------------------------- claims C31 - C40
\* C31: a status transition the state machine does not list is rejected
\* with the athlete unchanged: lap of an athlete that is Lapped or
\* Disqualified, and disqualify of an athlete that is Disqualified, leave
\* its points, savedPoints and status as they were.
C31_UnlistedTransitionRejected ==
    \A i \in 1..Len(athletes) :
        LET n == athletes[i].number
        IN  /\ athletes[i].status \in {"lapped", "disqualified"} =>
                Standing(LapAthlete(W, n), n) = Standing(W, n)
            /\ athletes[i].status = "disqualified" =>
                Standing(DisqualifyAthlete(W, n), n) = Standing(W, n)

\* what lap, unlap, disqualify and reinstate must leave alone: the race
\* flags, the configuration, the countdown, the open checkpoint, the history,
\* every other athlete, and the identity of athlete n
StatusFrame(w, n) ==
    /\ w.config = config
    /\ w.raceStarted = raceStarted
    /\ w.raceEnded = raceEnded
    /\ w.lapsRemaining = lapsRemaining
    /\ w.currentCheckpoint = currentCheckpoint
    /\ w.checkpointHistory = checkpointHistory
    /\ Len(w.athletes) = Len(athletes)
    /\ \A i \in 1..Len(athletes) :
           IF athletes[i].number = n
           THEN [w.athletes[i] EXCEPT !.points = 0, !.savedPoints = 0, !.status = "normal"]
                    = [athletes[i] EXCEPT !.points = 0, !.savedPoints = 0, !.status = "normal"]
           ELSE w.athletes[i] = athletes[i]

\* C32: lap, unlap, disqualify and reinstate change only the points,
\* savedPoints and status of the athlete they name: the open checkpoint
\* (number, assignedAthletes, availablePoints), checkpointHistory,
\* lapsRemaining, the race flags and every other athlete are unchanged.
C32_StatusChangeFrame ==
    \A n \in AthleteNumbers :
        /\ StatusFrame(LapAthlete(W, n), n)
        /\ StatusFrame(UnlapAthlete(W, n), n)
        /\ StatusFrame(DisqualifyAthlete(W, n), n)
        /\ StatusFrame(ReinstateAthlete(W, n), n)

\* an athlete given 2 points in the open checkpoint has been lapped: it is
\* still among the checkpoint's assignments and the 1 is still available
C32_Witness ==
    /\ CopiesIn("lapped", actionLog) = 1
    /\ Len(athletes) = 2
    /\ currentCheckpoint.availablePoints = <<1>>
    /\ \E i \in 1..Len(athletes) :
           /\ athletes[i].status = "lapped"
           /\ athletes[i].savedPoints = 2
           /\ [number |-> athletes[i].number, points |-> 2]
                  \in Range(currentCheckpoint.assignedAthletes)

\* the points the entries of the history, from entry k on, record for n
RECURSIVE HistoryPoints(_, _, _)
HistoryPoints(history, n, k) ==
    IF k > Len(history)
    THEN 0
    ELSE PointsRecorded(history[k].athletes, n, 1) + HistoryPoints(history, n, k + 1)

LedgerAgrees ==
    \A i \in 1..Len(athletes) :
        athletes[i].points + athletes[i].savedPoints
            = HistoryPoints(checkpointHistory, athletes[i].number, 1)

\* C33: in a run without modifyPoints, for every athlete points +
\* savedPoints is the sum of its points over the entries now in
\* checkpointHistory, whatever assignments, status changes and undos were made.
C33_LedgerConsistency ==
    CopiesIn("modify", actionLog) = 0 => LedgerAgrees

\* the ledger in runs with neither modifyPoints nor a status change
LedgerWithoutStatusChange ==
    (CopiesIn("modify", actionLog) = 0 /\ StatusOpsLogged = 0) =>
        /\ LedgerAgrees
        /\ \A i \in 1..Len(athletes) : athletes[i].savedPoints = 0

\* a confirmation of undoLastCheckpoint is pending
UndoPending == dialogCallback.kind = "undo"

\* C34: undo is requested in one event and applied at a later confirmation;
\* whatever commands ran in between, the entry whose points the confirmation
\* subtracts is the entry it pops from checkpointHistory, the most recent
\* one at that moment.
C34_UndoAppliesToTheLastEntry ==
    UndoPending =>
        LET w1 == DialogConfirm(W)
        IN  /\ dialogCallback.entry = Len(checkpointHistory)
            /\ w1.checkpointHistory = SubSeq(checkpointHistory, 1, Len(checkpointHistory) - 1)
            /\ \A i \in 1..Len(athletes) :
                   w1.athletes[i].points =
                       athletes[i].points
                           - PointsRecorded(LastEntry.athletes, athletes[i].number, 1)
            /\ w1.lapsRemaining = LastEntry.lapsBeforeDecrement
            /\ w1.currentCheckpoint.number = LastEntry.number

\* what a confirmed undo writes: the history, the countdown, the open
\* checkpoint, and a log line for each subtraction and for the undo itself
UndoEffect ==
    \/ checkpointHistory' # checkpointHistory
    \/ lapsRemaining' # lapsRemaining
    \/ currentCheckpoint' # currentCheckpoint
    \/ CopiesIn("removed", actionLog') # CopiesIn("removed", actionLog)
    \/ CopiesIn("undo", actionLog') # CopiesIn("undo", actionLog)

\* C35: no undo takes effect while raceEnded is true, also when the undo
\* was requested before the race was ended: the dialog holds one pending
\* callback, the request to end the race replaces a pending undo, and a
\* confirmation leaves no callback to run a second time.  So an ended race
\* has no undo pending, no step of an ended race has an undo's effect, and
\* after every confirmation the dialog is empty.
C35_NoUndoAfterTheEnd ==
    /\ [](raceEnded => ~UndoPending)
    /\ [][raceEnded => ~UndoEffect]_vars
    /\ [](DialogConfirm(W).dialogCallback = NoCallback)
    /\ [](UndoPending => /\ EndRace(W).dialogCallback.kind = "end"
                         /\ DialogConfirm(EndRace(W)).raceEnded
                         /\ DialogConfirm(EndRace(W)).checkpointHistory = checkpointHistory)

\* an undo of the last checkpoint waits for its confirmation and the End
\* button is shown: the request to end the race can come now
C35_Witness ==
    /\ UndoPending
    /\ ~raceEnded
    /\ lapsRemaining = 0
    /\ ~btnEndRaceHidden
    /\ Len(checkpointHistory) = 2

C37_LapsFollowTheCheckpointNumber ==
    (raceStarted /\ Len(currentCheckpoint.availablePoints) > 0) =>
        /\ lapsRemaining = config.totalLaps - Decrement * (currentCheckpoint.number - 1)
        /\ lapsRemaining <= config.totalLaps

\* four laps scored every two laps: checkpoint 2 is open with 2 laps left,
\* after an undo
C37_Witness ==
    /\ config = [totalLaps |-> 4, pointsFrequency |-> "every_2_laps"]
    /\ CopiesIn("undo", actionLog) = 1
    /\ CopiesIn("completed", actionLog) = 2
    /\ currentCheckpoint.number = 2
    /\ Len(currentCheckpoint.availablePoints) = 3
    /\ lapsRemaining = 2

\* an assignment is rejected and writes nothing of the race
AssignRejected(a, p, name, surname) ==
    LET r == AssignPointsToAthlete(W, a, p, name, surname)
    IN  /\ ~r.ret
        /\ RaceState(r.w) = RaceState(W)

\* C38: before startRace availablePoints is empty, so every assignPoints is
\* rejected and the athletes and checkpointHistory stay empty: nobody scores
\* before the race has started.
C38_NoScoringBeforeTheStart ==
    ~raceStarted =>
        /\ currentCheckpoint.availablePoints = <<>>
        /\ athletes = <<>>
        /\ checkpointHistory = <<>>
        /\ \A in \in EveryInput : AssignRejected(in[1], in[2], in[3], in[4])

\* the race is configured and not yet started
C38_Witness ==
    /\ configScreenHidden
    /\ ~raceStarted
    /\ ~btnStartRaceHidden
    /\ config.totalLaps = 2
    /\ lapsRemaining = 2

\* C39: once a completion has brought lapsRemaining to 0, no checkpoint is
\* opened and every assignPoints is rejected, availablePoints staying empty
\* and the checkpoint number unchanged, until an undo reopens the last
\* checkpoint or the race is ended.
C39_NothingAfterTheLastCompletion ==
    /\ [](raceStarted /\ lapsRemaining = 0 =>
            /\ currentCheckpoint.availablePoints = <<>>
            /\ \A in \in EveryInput : AssignRejected(in[1], in[2], in[3], in[4]))
    /\ [][(raceStarted /\ lapsRemaining = 0 /\ ~Confirmed("undo") /\ ~Confirmed("reset")) =>
            /\ lapsRemaining' = 0
            /\ currentCheckpoint' = currentCheckpoint
            /\ checkpointHistory' = checkpointHistory]_vars

\* the last checkpoint of a two-lap race is complete, the race not yet ended
C39_Witness ==
    /\ raceStarted
    /\ ~raceEnded
    /\ lapsRemaining = 0
    /\ config.totalLaps = 2
    /\ currentCheckpoint.number = 2
    /\ currentCheckpoint.availablePoints = <<>>
    /\ Len(currentCheckpoint.assignedAthletes) = 3
    /\ dialogCallback = NoCallback

\* C40: an athlete whose status is Normal has savedPoints = 0.
C40_NormalHasNoSavedPoints ==
    \A i \in 1..Len(athletes) :
        athletes[i].status = "normal" => athletes[i].savedPoints = 0

\* an athlete with 3 points has been disqualified and reinstated
C40_Witness ==
    /\ CopiesIn("reinstated", actionLog) = 1
    /\ \E i \in 1..Len(athletes) :
           /\ athletes[i].status = "normal"
           /\ athletes[i].points = 3
           /\ athletes[i].savedPoints = 0

====
